---- MODULE Spec2Model ----
(***************************************************************************)
(* Model of the tokens-generator service: the API key gate, the zod        *)
(* request schemas, the token service (generate, expiry, create, list)     *)
(* and the two controllers, running as concurrent request handlers on one  *)
(* relational store.  Time is in milliseconds since an arbitrary origin.   *)
(***************************************************************************)
EXTENDS Integers, Naturals, Sequences, FiniteSets, Bags, TLC

\* ---------------------------------------------------------------- bounds
MaxHandlers == 2     \* request handlers that can await the store together
MaxTicks == 1        \* clock advances in one behaviour
NumTokenStrings == 2 \* distinct strings the generator can produce
MaxInserts == 2      \* rows inserted in one behaviour with the maintenance sweep

\* ------------------------------------------------------ program constants
MsPerMinute == 60000
MsPerHour == 3600000
MsPerDay == 86400000
MaxExpiresInMinutes == 525600

TokenStrings == 1..NumTokenStrings

\* ------------------------------------------------------------ JSON values
\* A JSON number is its floor n and whether it has a fractional part.
JStr(s) == [t |-> "str", s |-> s, n |-> 0, frac |-> FALSE, a |-> <<>>]
JNum(n) == [t |-> "num", s |-> "", n |-> n, frac |-> FALSE, a |-> <<>>]
JFrac(n) == [t |-> "num", s |-> "", n |-> n, frac |-> TRUE, a |-> <<>>]
JNull == [t |-> "null", s |-> "", n |-> 0, frac |-> FALSE, a |-> <<>>]
JAbsent == [t |-> "absent", s |-> "", n |-> 0, frac |-> FALSE, a |-> <<>>]
JArr(a) == [t |-> "arr", s |-> "", n |-> 0, frac |-> FALSE, a |-> a]

\* A request body: text that JSON.parse accepts or not, and when it does,
\* an object with the three fields of interest or some other JSON value.
Body(u, sc, m) == [parseable |-> TRUE, isObject |-> TRUE, userId |-> u, scopes |-> sc, expiresInMinutes |-> m]
NotJsonBody == [parseable |-> FALSE, isObject |-> FALSE, userId |-> JAbsent, scopes |-> JAbsent, expiresInMinutes |-> JAbsent]
NonObjectBody == [parseable |-> TRUE, isObject |-> FALSE, userId |-> JAbsent, scopes |-> JAbsent, expiresInMinutes |-> JAbsent]
NoBody == NotJsonBody

\* ------------------------------------------------------------- zod schemas
Issue(path, message) == [path |-> path, message |-> message]

\* z.string().min(1, msg)
StringMin1Issues(v, path, msg) ==
  IF v.t # "str" THEN <<Issue(path, "invalid_type")>>
  ELSE IF v.s = "" THEN <<Issue(path, msg)>>
  ELSE <<>>

RECURSIVE ScopeElementIssues(_, _)
ScopeElementIssues(a, i) ==
  IF i > Len(a) THEN <<>>
  ELSE StringMin1Issues(a[i], <<"scopes", i>>, "Each scope must be a non-empty string")
         \o ScopeElementIssues(a, i + 1)

\* z.array(z.string().min(1, ...)).min(1, ...)
ScopesIssues(v) ==
  IF v.t # "arr" THEN <<Issue(<<"scopes">>, "invalid_type")>>
  ELSE (IF Len(v.a) < 1 THEN <<Issue(<<"scopes">>, "At least one scope is required")>> ELSE <<>>)
         \o ScopeElementIssues(v.a, 1)

\* faulty variant: the maximum is exclusive
ExpiresInMinutesIssues_MaxExclusive(v) ==
  IF v.t # "num" THEN <<Issue(<<"expiresInMinutes">>, "invalid_type")>>
  ELSE (IF v.frac THEN <<Issue(<<"expiresInMinutes">>, "expiresInMinutes must be an integer")>> ELSE <<>>)
    \o (IF ~(v.n > 0 \/ (v.n = 0 /\ v.frac))
        THEN <<Issue(<<"expiresInMinutes">>, "expiresInMinutes must be positive")>> ELSE <<>>)
    \o (IF ~(v.n < MaxExpiresInMinutes)
        THEN <<Issue(<<"expiresInMinutes">>, "expiresInMinutes cannot exceed 1 year (525600 minutes)")>>
        ELSE <<>>)

\* z.number().int(...).positive(...).max(525600, ...): every check runs
ExpiresInMinutesIssues(v) ==
  IF v.t # "num" THEN <<Issue(<<"expiresInMinutes">>, "invalid_type")>>
  ELSE (IF v.frac THEN <<Issue(<<"expiresInMinutes">>, "expiresInMinutes must be an integer")>> ELSE <<>>)
    \o (IF ~(v.n > 0 \/ (v.n = 0 /\ v.frac))
        THEN <<Issue(<<"expiresInMinutes">>, "expiresInMinutes must be positive")>> ELSE <<>>)
    \o (IF ~(v.n < MaxExpiresInMinutes \/ (v.n = MaxExpiresInMinutes /\ ~v.frac))
        THEN <<Issue(<<"expiresInMinutes">>, "expiresInMinutes cannot exceed 1 year (525600 minutes)")>>
        ELSE <<>>)

\* createTokenSchema.parse(body): the issues of the ZodError, <<>> when it passes
createTokenSchema(body) ==
  IF ~body.isObject THEN <<Issue(<<>>, "invalid_type")>>
  ELSE StringMin1Issues(body.userId, <<"userId">>, "userId must not be empty")
         \o ScopesIssues(body.scopes)
         \o ExpiresInMinutesIssues(body.expiresInMinutes)

\* the value createTokenSchema.parse returns for a body it accepts
CreateTokenInput(body) ==
  [userId |-> body.userId.s,
   scopes |-> [i \in 1..Len(body.scopes.a) |-> body.scopes.a[i].s],
   expiresInMinutes |-> body.expiresInMinutes.n]

\* getTokensSchema.parse({ userId }): userId is null when the parameter is missing
getTokensSchema(userId) ==
  StringMin1Issues(userId, <<"userId">>, "userId must not be empty")

\* ------------------------------------------------------------ API key gate
NoHeader == [present |-> FALSE, v |-> ""]
Header(v) == [present |-> TRUE, v |-> v]
NoEnv == [set |-> FALSE, v |-> ""]
Env(v) == [set |-> TRUE, v |-> v]

\* faulty variant: a request without the header is let through
validateApiKey_MissingHeaderPasses(apiKey, expectedApiKey) ==
  IF ~expectedApiKey.set \/ expectedApiKey.v = "" THEN TRUE
  ELSE ~apiKey.present \/ apiKey.v = expectedApiKey.v

\* faulty variant: an empty API_KEY is a key like any other
validateApiKey_EmptyIsKey(apiKey, expectedApiKey) ==
  IF ~expectedApiKey.set THEN TRUE
  ELSE apiKey.present /\ apiKey.v = expectedApiKey.v

\* validateApiKey(request) with process.env.API_KEY = expectedApiKey
validateApiKey(apiKey, expectedApiKey) ==
  IF ~expectedApiKey.set \/ expectedApiKey.v = "" THEN TRUE
  ELSE apiKey.present /\ apiKey.v = expectedApiKey.v

\* faulty variant: the open gate is silent
validateApiKeyWarnings_Silent(apiKey, expectedApiKey) == <<>>

\* the messages one call of validateApiKey passes to console.warn
validateApiKeyWarnings(apiKey, expectedApiKey) ==
  IF ~expectedApiKey.set \/ expectedApiKey.v = ""
  THEN <<"Warning: API_KEY not configured. Authentication is disabled.">>
  ELSE <<>>

\* ------------------------------------------------------------- time zones
\* The process time zone: the offset of local time from UTC is `before`
\* until the instant transitionAt and `after` from then on.
FixedZone == [transitionAt |-> 0, before |-> 0, after |-> 0]
FallBackZone == [transitionAt |-> MsPerMinute, before |-> MsPerHour, after |-> 0]
TimeZones == {FixedZone, FallBackZone}

\* LocalTime(t) of ECMAScript: the local time value of the instant t
LocalTime(t, zone) == t + (IF t < zone.transitionAt THEN zone.before ELSE zone.after)

\* UTC(t) of ECMAScript: a repeated or skipped local time is read with the
\* offset in force before the transition
UTC(local, zone) ==
  IF local - zone.before < zone.transitionAt THEN local - zone.before
  ELSE IF local - zone.after >= zone.transitionAt THEN local - zone.after
  ELSE local - zone.before

\* ---------------------------------------------------------- token service
\* generateTokenString(): `token_${randomUUID()}`
generateTokenString(uuid) == <<"token_", uuid>>

\* The text of the version 4 UUID that crypto.randomUUID() returns when its
\* random bits are `bits` (the low 32; the others are taken as 0): 32 hex
\* digits in groups of 8, 4, 4, 4 and 12, the 13th digit the version and the
\* top two bits of the 17th the variant.
HexDigits == <<"0", "1", "2", "3", "4", "5", "6", "7", "8", "9", "a", "b", "c", "d", "e", "f">>
Pow16 == <<1, 16, 256, 4096, 65536, 1048576, 16777216, 268435456>>
UUIDDashes == {9, 14, 19, 24}
UUIDNibble(bits, i) ==
  LET raw == IF i <= 24 THEN 0 ELSE (bits \div Pow16[33 - i]) % 16
  IN IF i = 13 THEN 4 ELSE IF i = 17 THEN 8 + (raw % 4) ELSE raw

\* faulty variant: the digits without the dashes
randomUUID_NoDashes(bits) == [i \in 1..32 |-> HexDigits[UUIDNibble(bits, i) + 1]]

randomUUID(bits) ==
  [p \in 1..36 |->
     IF p \in UUIDDashes THEN "-"
     ELSE HexDigits[UUIDNibble(bits, p - Cardinality({d \in UUIDDashes : d < p})) + 1]]

\* the characters of a token string
TokenText(token) == <<"t", "o", "k", "e", "n", "_">> \o randomUUID(token[2])

\* calculateExpiryDate(expiresInMinutes) called at instant t:
\* new Date() then setMinutes(getMinutes() + expiresInMinutes), in local time
calculateExpiryDate(t, zone, expiresInMinutes) ==
  UTC(LocalTime(t, zone) + expiresInMinutes * MsPerMinute, zone)

\* faulty variant: a token is expired from the instant it expires at
isTokenExpired_Gte(expiresAt, t) == t >= expiresAt

\* isTokenExpired(expiresAt) called at instant t
isTokenExpired(expiresAt, t) == t > expiresAt

\* faulty variant: the milliseconds are dropped
toISOString_NoMillis(t) ==
  [day |-> t \div MsPerDay,
   hh |-> (t % MsPerDay) \div MsPerHour,
   mm |-> (t % MsPerHour) \div MsPerMinute,
   ss |-> (t % MsPerMinute) \div 1000,
   sss |-> 0]

\* Date.prototype.toISOString: the UTC fields of the instant
toISOString(t) ==
  [day |-> t \div MsPerDay,
   hh |-> (t % MsPerDay) \div MsPerHour,
   mm |-> (t % MsPerHour) \div MsPerMinute,
   ss |-> (t % MsPerMinute) \div 1000,
   sss |-> t % 1000]

\* new Date(isoString).getTime()
parseISOString(iso) ==
  iso.day * MsPerDay + iso.hh * MsPerHour + iso.mm * MsPerMinute + iso.ss * 1000 + iso.sss

serializeToken(token) ==
  [id |-> token.id,
   token |-> token.token,
   userId |-> token.userId,
   scopes |-> token.scopes,
   createdAt |-> toISOString(token.createdAt),
   expiresAt |-> toISOString(token.expiresAt)]

\* --------------------------------------------------------------- the store
\* faulty variant: gte in place of gt
ActiveWhere_Gte(r, userId, qnow) == r.userId = userId /\ r.expiresAt >= qnow

\* where: { userId, expiresAt: { gt: now } } of getActiveTokensForUser
ActiveWhere(r, userId, qnow) == r.userId = userId /\ r.expiresAt > qnow

\* faulty variant: lt in place of lte
ExpiredWhere_Lt(r, qnow) == r.expiresAt < qnow

\* where: { expiresAt: { lte: now } } of deleteExpiredTokens
ExpiredWhere(r, qnow) == r.expiresAt <= qnow

\* faulty variant: oldest first
IsCreatedAtDesc_Asc(seq) ==
  \A i, j \in 1..Len(seq) : i < j => seq[i].createdAt <= seq[j].createdAt

\* orderBy: { createdAt: 'desc' }
IsCreatedAtDesc(seq) ==
  \A i, j \in 1..Len(seq) : i < j => seq[i].createdAt >= seq[j].createdAt

\* the sequences listing each element of S once
SeqsOf(S) ==
  {f \in [1..Cardinality(S) -> S] : \A i, j \in 1..Cardinality(S) : i # j => f[i] # f[j]}

\* the results findMany can return: the matching rows, newest first, rows
\* of equal createdAt in an order the store chooses
FindManyResults(rows, userId, qnow) ==
  {seq \in SeqsOf({r \in rows : ActiveWhere(r, userId, qnow)}) : IsCreatedAtDesc(seq)}

\* faulty variant: the index is not unique
TokenKeyConflict_NoIndex(rows, token) == FALSE

\* the unique index tokens_token_key
TokenKeyConflict(rows, token) == \E r \in rows : r.token = token

\* ------------------------------------------------------------------- state
VARIABLES
  store,      \* the rows of table "tokens"
  nextId,     \* the ids the store has handed out so far
  now,        \* the clock, in ms
  tz,         \* the time zone of the process
  API_KEY,    \* process.env.API_KEY
  pending,    \* the bag of handlers awaiting the store: request and locals of each
  last,       \* the exchange the latest step completed: request, locals, response
  ticks,      \* clock advances so far
  returned,   \* the records createToken has returned to its caller
  call        \* the latest direct call of a pure function: arguments and result

vars == <<store, nextId, now, tz, API_KEY, pending, last, ticks, returned, call>>

\* ------------------------------------------------------------------ inputs
Headers == {NoHeader, Header("secret"), Header("wrong")}
Environments == {NoEnv, Env(""), Env("secret")}
ValidBodies ==
  {Body(JStr("u1"), JArr(<<JStr("read"), JStr("write")>>), JNum(1)),
   Body(JStr("u2"), JArr(<<JStr("read"), JStr("read")>>), JNum(2))}
InvalidBodies == {Body(JStr("u1"), JArr(<<>>), JNum(1))}
Bodies == ValidBodies \cup InvalidBodies \cup {NotJsonBody}
Queries == {JAbsent, JStr(""), JStr("u1"), JStr("u2")}
TickSteps == {MsPerMinute}

\* --------------------------------------------------------------- responses
NoResponse == [status |-> 0, error |-> "", details |-> <<>>, data |-> <<>>]
Unauthorized == [status |-> 401, error |-> "Unauthorized. Valid X-API-Key header required.", details |-> <<>>, data |-> <<>>]
ValidationFailed(issues) == [status |-> 400, error |-> "Validation failed", details |-> issues, data |-> <<>>]
InternalServerError == [status |-> 500, error |-> "Internal server error", details |-> <<>>, data |-> <<>>]
Created(token) == [status |-> 201, error |-> "", details |-> <<>>, data |-> <<serializeToken(token)>>]
Ok(tokens) == [status |-> 200, error |-> "", details |-> <<>>, data |-> [i \in 1..Len(tokens) |-> serializeToken(tokens[i])]]

NoToken == generateTokenString(0)

NoCall == [fn |-> ""]

Idle ==
  [method |-> "", apiKey |-> NoHeader, body |-> NoBody, userId |-> JAbsent,
   pc |-> "idle", stages |-> <<>>, token |-> NoToken, expiresAt |-> 0,
   qnow |-> 0, err |-> "", resp |-> NoResponse, count |-> 0]

PostRequest(h, b) ==
  [Idle EXCEPT !.method = "POST", !.apiKey = h, !.body = b, !.stages = <<"gate">>]

GetRequest(h, q) ==
  [Idle EXCEPT !.method = "GET", !.apiKey = h, !.userId = q, !.stages = <<"gate">>]

Init ==
  /\ store = {}
  /\ nextId = 0
  /\ now = 0
  /\ tz \in TimeZones
  /\ API_KEY \in Environments
  /\ pending = EmptyBag
  /\ last = Idle
  /\ ticks = 0
  /\ returned = {}
  /\ call = NoCall

Finish(r, resp) == [r EXCEPT !.pc = "done", !.resp = resp]

\* A request answered before its handler awaits the store runs in one turn of
\* the event loop and shares nothing with the handlers in flight: the model
\* takes such a request between them, when no handler is in flight.
Quiet == pending = EmptyBag

\* The header of a handler that has passed the gate: nothing reads it again,
\* and it is kept only where the gate could have refused it.
PastGate(apiKey) == IF validateApiKey(NoHeader, API_KEY) THEN NoHeader ELSE apiKey

\* a handler runs from the arrival of its request to r: its response, or its
\* first await of the store
Begin(r) ==
  /\ BagCardinality(pending) < MaxHandlers
  /\ IF r.pc = "done"
     THEN Quiet /\ pending' = pending /\ last' = r
     ELSE pending' = pending (+) SetToBag({r}) /\ last' = Idle

\* the store operation handler h awaits has settled and h has answered with r
Settle(h, r) ==
  /\ pending' = pending (-) SetToBag({h})
  /\ last' = r

\* faulty variant: the body is parsed and validated before the key is checked
PostValidate_ValidateFirst(r, uuid) ==
  IF ~r.body.parseable
  THEN [Finish(r, InternalServerError) EXCEPT !.err = "SyntaxError"]
  ELSE IF createTokenSchema(r.body) # <<>>
  THEN [Finish(r, ValidationFailed(createTokenSchema(r.body))) EXCEPT
          !.err = "ZodError", !.stages = Append(r.stages, "validator")]
  ELSE IF ~validateApiKey(r.apiKey, API_KEY) THEN Finish(r, Unauthorized)
  ELSE [r EXCEPT !.pc = "create", !.apiKey = PastGate(r.apiKey),
                 !.stages = r.stages \o <<"validator", "service">>,
                 !.token = generateTokenString(uuid),
                 !.expiresAt = calculateExpiryDate(now, tz, CreateTokenInput(r.body).expiresInMinutes)]

\* ------------------------------------------------------- POST /api/tokens
\* createTokenController up to `await prisma.token.create(...)`: validateApiKey,
\* request.json(), createTokenSchema.parse, generateTokenString and
\* calculateExpiryDate.  Nothing before that await reads the store or the
\* clock, so the await of request.json() is no separate step.
PostValidate(r, uuid) ==
  IF ~validateApiKey(r.apiKey, API_KEY) THEN Finish(r, Unauthorized)
  ELSE IF ~r.body.parseable
  THEN [Finish(r, InternalServerError) EXCEPT !.err = "SyntaxError"]
  ELSE IF createTokenSchema(r.body) # <<>>
  THEN [Finish(r, ValidationFailed(createTokenSchema(r.body))) EXCEPT
          !.err = "ZodError", !.stages = Append(r.stages, "validator")]
  ELSE [r EXCEPT !.pc = "create", !.apiKey = PastGate(r.apiKey),
                 !.stages = r.stages \o <<"validator", "service">>,
                 !.token = generateTokenString(uuid),
                 !.expiresAt = calculateExpiryDate(now, tz, CreateTokenInput(r.body).expiresInMinutes)]

createTokenControllerBegin ==
  /\ \E h \in Headers, b \in Bodies, uuid \in TokenStrings :
       Begin(PostValidate(PostRequest(h, b), uuid))
  /\ UNCHANGED <<store, nextId, now, tz, API_KEY, ticks, returned, call>>

\* faulty variant: the expiry is kept in a variable the calls in flight share,
\* and an insert stores the latest of them
NewRow_SharedExpiry(r) ==
  [id |-> nextId + 1,
   token |-> r.token,
   userId |-> CreateTokenInput(r.body).userId,
   scopes |-> CreateTokenInput(r.body).scopes,
   createdAt |-> now,
   expiresAt |-> CHOOSE e \in {h.expiresAt : h \in BagToSet(pending)} :
                   \A h \in BagToSet(pending) : e >= h.expiresAt]

\* faulty variant: the scopes are stored in reverse order
NewRow_ScopesReversed(r) ==
  [id |-> nextId + 1,
   token |-> r.token,
   userId |-> CreateTokenInput(r.body).userId,
   scopes |-> [i \in 1..Len(r.body.scopes.a) |->
                 CreateTokenInput(r.body).scopes[Len(r.body.scopes.a) + 1 - i]],
   createdAt |-> now,
   expiresAt |-> r.expiresAt]

\* the row prisma.token.create inserts: id and createdAt are the store's
NewRow(r) ==
  [id |-> nextId + 1,
   token |-> r.token,
   userId |-> CreateTokenInput(r.body).userId,
   scopes |-> CreateTokenInput(r.body).scopes,
   createdAt |-> now,
   expiresAt |-> r.expiresAt]

\* the error prisma.token.create raises, "" when the store accepts the insert
CreateError(r, available) ==
  IF ~available THEN "StoreUnavailable"
  ELSE IF TokenKeyConflict(store, r.token) THEN "UniqueConstraint"
  ELSE ""

\* faulty variant: the row is acknowledged and never written
RowsAfterCreate_Lost(r, available) == store

\* faulty variant: the row is written although the store then reports a failure
RowsAfterCreate_WriteThenFail(r, available) ==
  IF TokenKeyConflict(store, r.token) THEN store ELSE store \cup {NewRow(r)}

\* faulty variant: an insert also deletes the rows that have expired
RowsAfterCreate_Sweeps(r, available) ==
  IF CreateError(r, available) = ""
  THEN {x \in store : ~ExpiredWhere(x, now)} \cup {NewRow(r)}
  ELSE store

\* the rows after prisma.token.create
RowsAfterCreate(r, available) ==
  IF CreateError(r, available) = "" THEN store \cup {NewRow(r)} ELSE store

\* faulty variant: the 500 response carries the store's error
PostRespond_LeaksDetail(r, available) ==
  IF CreateError(r, available) = "" THEN Finish(r, Created(NewRow(r)))
  ELSE [Finish(r, [InternalServerError EXCEPT !.error = CreateError(r, available)]) EXCEPT
          !.err = CreateError(r, available)]

\* the rest of createTokenController once prisma.token.create has settled
PostRespond(r, available) ==
  IF CreateError(r, available) = "" THEN Finish(r, Created(NewRow(r)))
  ELSE [Finish(r, InternalServerError) EXCEPT !.err = CreateError(r, available)]

\* `await prisma.token.create(...)` and the rest of createTokenController
prismaTokenCreate(h) ==
  /\ h.pc = "create"
  /\ \E available \in BOOLEAN :
       LET r == [h EXCEPT !.stages = Append(h.stages, "store")]
           ok == CreateError(r, available) = ""
       IN /\ store' = RowsAfterCreate(r, available)
          /\ nextId' = IF ok THEN nextId + 1 ELSE nextId
          /\ returned' = IF ok THEN returned \cup {NewRow(r)} ELSE returned
          /\ Settle(h, PostRespond(r, available))
  /\ UNCHANGED <<now, tz, API_KEY, ticks, call>>

\* faulty variant: a ZodError falls through to the generic 500
GetValidate_ZodIs500(r) ==
  IF ~validateApiKey(r.apiKey, API_KEY) THEN Finish(r, Unauthorized)
  ELSE IF getTokensSchema(r.userId) # <<>>
  THEN [Finish(r, InternalServerError) EXCEPT
          !.err = "ZodError", !.stages = Append(r.stages, "validator")]
  ELSE [r EXCEPT !.pc = "findMany", !.apiKey = PastGate(r.apiKey),
                 !.stages = r.stages \o <<"validator", "service">>,
                 !.qnow = now]

\* faulty variant: the query time is the time the process started
GetValidate_StaleNow(r) ==
  IF ~validateApiKey(r.apiKey, API_KEY) THEN Finish(r, Unauthorized)
  ELSE IF getTokensSchema(r.userId) # <<>>
  THEN [Finish(r, ValidationFailed(getTokensSchema(r.userId))) EXCEPT
          !.err = "ZodError", !.stages = Append(r.stages, "validator")]
  ELSE [r EXCEPT !.pc = "findMany", !.apiKey = PastGate(r.apiKey),
                 !.stages = r.stages \o <<"validator", "service">>,
                 !.qnow = 0]

\* -------------------------------------------------------- GET /api/tokens
\* getTokensController up to `await prisma.token.findMany(...)`:
\* validateApiKey, getTokensSchema.parse and `const now = new Date()`
GetValidate(r) ==
  IF ~validateApiKey(r.apiKey, API_KEY) THEN Finish(r, Unauthorized)
  ELSE IF getTokensSchema(r.userId) # <<>>
  THEN [Finish(r, ValidationFailed(getTokensSchema(r.userId))) EXCEPT
          !.err = "ZodError", !.stages = Append(r.stages, "validator")]
  ELSE [r EXCEPT !.pc = "findMany", !.apiKey = PastGate(r.apiKey),
                 !.stages = r.stages \o <<"validator", "service">>,
                 !.qnow = now]

getTokensControllerBegin ==
  /\ \E h \in Headers, q \in Queries : Begin(GetValidate(GetRequest(h, q)))
  /\ UNCHANGED <<store, nextId, now, tz, API_KEY, ticks, returned, call>>

\* the rest of getTokensController once prisma.token.findMany has settled
GetRespond(r, available, tokens) ==
  IF available THEN Finish(r, Ok(tokens))
  ELSE [Finish(r, InternalServerError) EXCEPT !.err = "StoreUnavailable"]

\* faulty variant: the list deletes the rows that have expired at its query time
prismaTokenFindMany_Sweeps(h) ==
  /\ h.pc = "findMany"
  /\ \E available \in BOOLEAN :
       LET r == [h EXCEPT !.stages = Append(h.stages, "store")]
       IN \E tokens \in FindManyResults(store, r.userId.s, r.qnow) :
            Settle(h, GetRespond(r, available, tokens))
  /\ store' = {x \in store : ~ExpiredWhere(x, h.qnow)}
  /\ UNCHANGED <<nextId, now, tz, API_KEY, ticks, returned, call>>

\* `await prisma.token.findMany(...)` and the rest of getTokensController
prismaTokenFindMany(h) ==
  /\ h.pc = "findMany"
  /\ \E available \in BOOLEAN :
       LET r == [h EXCEPT !.stages = Append(h.stages, "store")]
       IN \E tokens \in FindManyResults(store, r.userId.s, r.qnow) :
            Settle(h, GetRespond(r, available, tokens))
  /\ UNCHANGED <<store, nextId, now, tz, API_KEY, ticks, returned, call>>

\* ------------------------------------------------------------------- clock
Tick ==
  /\ ticks < MaxTicks
  /\ \E d \in TickSteps : now' = now + d
  /\ ticks' = ticks + 1
  /\ last' = Idle
  /\ UNCHANGED <<store, nextId, tz, API_KEY, pending, returned, call>>

Next ==
  \/ createTokenControllerBegin
  \/ \E h \in BagToSet(pending) : prismaTokenCreate(h)
  \/ getTokensControllerBegin
  \/ \E h \in BagToSet(pending) : prismaTokenFindMany(h)
  \/ Tick

Spec == Init /\ [][Next]_vars

\* ------------------------------------------------------ maintenance sweep
\* deleteExpiredTokens() is called by no handler: it runs beside them, for an
\* operator or a scheduler.  Up to `await prisma.token.deleteMany(...)` it
\* takes `const now = new Date()`.
deleteExpiredTokensBegin ==
  /\ Begin([Idle EXCEPT !.method = "deleteExpiredTokens", !.pc = "deleteMany", !.qnow = now])
  /\ UNCHANGED <<store, nextId, now, tz, API_KEY, ticks, returned, call>>

\* the rows after prisma.token.deleteMany
RowsAfterDeleteMany(h, available) ==
  IF available THEN {r \in store : ~ExpiredWhere(r, h.qnow)} ELSE store

\* `await prisma.token.deleteMany(...)` and `return result.count`
prismaTokenDeleteMany(h) ==
  /\ h.pc = "deleteMany"
  /\ \E available \in BOOLEAN :
       /\ store' = RowsAfterDeleteMany(h, available)
       /\ Settle(h, [h EXCEPT !.pc = "done",
                              !.err = IF available THEN "" ELSE "StoreUnavailable",
                              !.count = Cardinality(store \ RowsAfterDeleteMany(h, available))])
  /\ UNCHANGED <<nextId, now, tz, API_KEY, ticks, returned, call>>

\* The handlers and the sweep together, with no API key configured.
InitMaint ==
  /\ store = {}
  /\ nextId = 0
  /\ now = 0
  /\ tz \in TimeZones
  /\ API_KEY = NoEnv
  /\ pending = EmptyBag
  /\ last = Idle
  /\ ticks = 0
  /\ returned = {}
  /\ call = NoCall

NextMaint ==
  \/ Next /\ nextId' <= MaxInserts
  \/ deleteExpiredTokensBegin
  \/ \E h \in BagToSet(pending) : prismaTokenDeleteMany(h)

SpecMaint == InitMaint /\ [][NextMaint]_vars

\* ------------------------------------------------- direct calls of functions
\* The pure functions called directly, as the unit tests call them, on
\* arguments drawn from the sets below.
UnitKeys == {"", "secret", "Secret", "secret ", "wrong"}
UnitHeaders == {NoHeader} \cup {Header(k) : k \in UnitKeys}
UnitEnvironments == {NoEnv} \cup {Env(k) : k \in UnitKeys}
UnitInstants == {0, 1, MsPerMinute - 1, MsPerMinute, MsPerMinute + 1, MsPerHour}
UnitMinutes == {1, 2, 60}
UnitUserIds == {JStr("u1"), JStr(""), JNum(1), JAbsent}
UnitScopes ==
  {JArr(<<JStr("read")>>), JArr(<<JStr("read"), JStr("write")>>), JArr(<<>>),
   JArr(<<JStr("read"), JStr("")>>), JArr(<<JStr(""), JStr("read")>>),
   JArr(<<JNum(1)>>), JStr("read"), JAbsent}
UnitDurations ==
  {JNum(1), JNum(60), JNum(MaxExpiresInMinutes), JNum(MaxExpiresInMinutes + 1), JNum(0), JNum(-1),
   JFrac(60), JFrac(MaxExpiresInMinutes), JFrac(0), JStr("60"), JNull, JAbsent}
UnitDates ==
  {-1, 0, 1, 999, 1000, MsPerMinute - 1, MsPerMinute, MsPerHour - 1, MsPerDay - 1, MsPerDay,
   MsPerDay + MsPerHour + MsPerMinute + 1001}
UnitTokens ==
  [id : {1}, token : {generateTokenString(1)}, userId : {"u1"},
   scopes : {<<>>, <<"read">>, <<"read", "write">>, <<"read", "read">>},
   createdAt : UnitDates, expiresAt : UnitDates]
UnitUUIDs == {0, 1, 255, 43981, 2147483647}
UnitBodies ==
  {Body(u, sc, m) : u \in UnitUserIds, sc \in UnitScopes, m \in UnitDurations} \cup {NonObjectBody}

InitUnit ==
  /\ store = {}
  /\ nextId = 0
  /\ now = 0
  /\ tz = FixedZone
  /\ API_KEY = NoEnv
  /\ pending = EmptyBag
  /\ last = Idle
  /\ ticks = 0
  /\ returned = {}
  /\ call = NoCall

CallValidateApiKey ==
  /\ \E h \in UnitHeaders, e \in UnitEnvironments :
       call' = [fn |-> "validateApiKey", apiKey |-> h, expectedApiKey |-> e,
                result |-> validateApiKey(h, e),
                warnings |-> validateApiKeyWarnings(h, e)]
  /\ UNCHANGED <<store, nextId, now, tz, API_KEY, pending, last, ticks, returned>>

CallCalculateExpiryDate ==
  /\ \E t \in UnitInstants, zone \in TimeZones, m \in UnitMinutes :
       call' = [fn |-> "calculateExpiryDate", t |-> t, zone |-> zone, expiresInMinutes |-> m,
                result |-> calculateExpiryDate(t, zone, m)]
  /\ UNCHANGED <<store, nextId, now, tz, API_KEY, pending, last, ticks, returned>>

CallIsTokenExpired ==
  /\ \E e \in UnitInstants, t \in UnitInstants :
       call' = [fn |-> "isTokenExpired", expiresAt |-> e, t |-> t,
                result |-> isTokenExpired(e, t)]
  /\ UNCHANGED <<store, nextId, now, tz, API_KEY, pending, last, ticks, returned>>

CallCreateTokenSchema ==
  /\ \E b \in UnitBodies :
       call' = [fn |-> "createTokenSchema", body |-> b, issues |-> createTokenSchema(b)]
  /\ UNCHANGED <<store, nextId, now, tz, API_KEY, pending, last, ticks, returned>>

CallSerializeToken ==
  /\ \E token \in UnitTokens :
       call' = [fn |-> "serializeToken", token |-> token, result |-> serializeToken(token)]
  /\ UNCHANGED <<store, nextId, now, tz, API_KEY, pending, last, ticks, returned>>

\* a call of generateTokenString, with the values the calls before it in an
\* unbroken run of such calls returned
CallGenerateTokenString ==
  /\ \E uuid \in UnitUUIDs :
       call' = [fn |-> "generateTokenString", uuid |-> uuid,
                result |-> generateTokenString(uuid),
                text |-> TokenText(generateTokenString(uuid)),
                earlier |-> IF call.fn = "generateTokenString"
                            THEN call.earlier \cup {call.result} ELSE {}]
  /\ UNCHANGED <<store, nextId, now, tz, API_KEY, pending, last, ticks, returned>>

NextUnit ==
  \/ CallValidateApiKey
  \/ CallGenerateTokenString
  \/ CallSerializeToken
  \/ CallCreateTokenSchema
  \/ CallCalculateExpiryDate
  \/ CallIsTokenExpired

SpecUnit == InitUnit /\ [][NextUnit]_vars

\* ================================================================== claims
\* the exchange completed by the latest step, if any
Listed == last.pc = "done" /\ last.method = "GET" /\ last.resp.status = 200
CreateSettled == last.pc = "done" /\ last.method = "POST" /\ Len(last.stages) = 4
CreatedOk == CreateSettled /\ last.resp.status = 201
ListedTokens == {last.resp.data[i] : i \in 1..Len(last.resp.data)}
Stages == <<"gate", "validator", "service", "store">>

\* C1: a list for user u whose query time is qnow returns exactly the rows
\* with userId = u and expiresAt > qnow: none of another user, none with
\* expiresAt <= qnow, none missing, none twice.
C1_ListReturnsExactlyActive ==
  Listed =>
    /\ ListedTokens =
         {serializeToken(r) : r \in {x \in store : x.userId = last.userId.s /\ x.expiresAt > last.qnow}}
    /\ Len(last.resp.data) = Cardinality(ListedTokens)

\* C1 witness: a list that returns a row while leaving out a row of the same
\* user whose expiresAt is not after the query time
C1_Witness ==
  /\ Listed
  /\ Len(last.resp.data) = 1
  /\ \E r \in store : r.userId = last.userId.s /\ r.expiresAt <= last.qnow

\* C2: a list for user u includes every record createToken has returned for u
\* whose expiresAt is after the query time, whatever creates and lists ran
\* in between.
C2_ReadAfterWrite ==
  Listed =>
    \A r \in returned :
      (r.userId = last.userId.s /\ last.qnow < r.expiresAt) => serializeToken(r) \in ListedTokens

\* C2 witness: two creates have returned and a later list shows a record of
\* its user, queried after that record was created
C2_Witness ==
  /\ Listed
  /\ Cardinality(returned) = 2
  /\ \E r \in returned :
       /\ r.userId = last.userId.s
       /\ r.createdAt < last.qnow
       /\ last.qnow < r.expiresAt
       /\ serializeToken(r) \in ListedTokens

\* C3: a settled prisma.token.create either added exactly one row and the
\* handler answered 201 with that row, or it failed, the handler answered 500
\* and the rows are as before; no other step changes the rows.
C3_CreateAllOrNothing ==
  [][/\ (last'.pc = "done" /\ last'.method = "POST" /\ Len(last'.stages) = 4) =>
          \/ /\ last'.resp.status = 201
             /\ \E row \in store' \ store :
                  /\ store' = store \cup {row}
                  /\ last'.resp.data = <<serializeToken(row)>>
          \/ /\ last'.resp.status = 500
             /\ last'.err \in {"UniqueConstraint", "StoreUnavailable"}
             /\ store' = store
     /\ store' # store => (last'.method = "POST" /\ last'.resp.status = 201)]_vars

\* C3 witness: a create failed on an unavailable store while rows exist
C3_Witness ==
  /\ CreateSettled
  /\ last.err = "StoreUnavailable"
  /\ store # {}

\* C4: no two rows hold the same token string; an insert whose string is
\* already stored fails, once, and the stored row stays.
C4_TokenUnique ==
  /\ \A r1, r2 \in store : r1.token = r2.token => r1 = r2
  /\ (CreateSettled /\ last.err = "UniqueConstraint") =>
       /\ last.resp.status = 500
       /\ last.stages = Stages
       /\ \E r \in store : r.token = last.token

\* C4 witness: an insert of another user's request failed on a string that
\* an earlier insert had stored
C4_Witness ==
  /\ CreateSettled
  /\ last.err = "UniqueConstraint"
  /\ \E r \in store : r.token = last.token /\ r.userId # last.body.userId.s

\* C5 (as claimed), in a time zone whose offset never changes: the record a
\* create returns has expiresAt - createdAt = expiresInMinutes minutes.
C5_ExpiryIsCreatedAtPlusMinutes ==
  (CreatedOk /\ tz = FixedZone) =>
    parseISOString(last.resp.data[1].expiresAt) - parseISOString(last.resp.data[1].createdAt)
      = last.body.expiresInMinutes.n * MsPerMinute

\* C6 (as claimed): every row has expiresAt > createdAt.
C6_ExpiresAfterCreated ==
  \A r \in store : r.expiresAt > r.createdAt

\* C7 (as claimed): with API_KEY set, validateApiKey is true exactly when the
\* header is present and equal to it.
C7_GateIffEqual ==
  (call.fn = "validateApiKey" /\ call.expectedApiKey.set) =>
    (call.result <=> (call.apiKey.present /\ call.apiKey.v = call.expectedApiKey.v))

\* C7 (amended): with API_KEY set to a non-empty string, validateApiKey is
\* true exactly when the header is present and equal to it.
C7_GateIffEqualNonEmpty ==
  (call.fn = "validateApiKey" /\ call.expectedApiKey.set /\ call.expectedApiKey.v # "") =>
    (call.result <=> (call.apiKey.present /\ call.apiKey.v = call.expectedApiKey.v))

\* C7 witness: a header differing from the configured key in one letter's
\* case is refused
C7_Witness ==
  /\ call.fn = "validateApiKey"
  /\ call.expectedApiKey = Env("secret")
  /\ call.apiKey = Header("Secret")
  /\ call.result = FALSE

\* C8: a handler passes the gate, then the validator, then the service, then
\* the store, in that order; a request the gate refuses is answered 401 with
\* the fixed message and nothing else, whatever its body or query, without
\* reaching the validator, the service or the store.
C8_GateFirst ==
  /\ \A h \in BagToSet(pending) \cup {last} : h.stages = SubSeq(Stages, 1, Len(h.stages))
  /\ \A h \in BagToSet(pending) \cup {last} :
       (h.pc # "idle" /\ ~validateApiKey(h.apiKey, API_KEY)) =>
         /\ h.pc = "done"
         /\ h.stages = <<"gate">>
         /\ h.resp = [status |-> 401, error |-> "Unauthorized. Valid X-API-Key header required.",
                      details |-> <<>>, data |-> <<>>]
  /\ (last.pc = "done" /\ last.resp.status = 401) =>
       /\ last.stages = <<"gate">>
       /\ ~validateApiKey(last.apiKey, API_KEY)

\* C8 witness: a well-formed create request with a wrong key is answered 401
\* while the store holds rows
C8_Witness ==
  /\ last.pc = "done"
  /\ last.method = "POST"
  /\ last.apiKey = Header("wrong")
  /\ last.body \in ValidBodies
  /\ last.resp.status = 401
  /\ store # {}

\* whether the validator of the exchange refuses its input
ValidatorRefuses(x) ==
  IF x.method = "POST" THEN x.body.parseable /\ createTokenSchema(x.body) # <<>>
  ELSE getTokensSchema(x.userId) # <<>>

\* C9: a request that passes the gate and that its validator refuses is
\* answered 400 "Validation failed" with a non-empty details list, and
\* never reaches the service or the store.
C9_ValidationFailed ==
  (last.pc = "done" /\ validateApiKey(last.apiKey, API_KEY) /\ ValidatorRefuses(last)) =>
    /\ last.resp.status = 400
    /\ last.resp.error = "Validation failed"
    /\ last.resp.details # <<>>
    /\ last.resp.data = <<>>
    /\ last.stages = <<"gate", "validator">>

\* C9 witness: a list request without userId, with the right key, is
\* answered 400 while the store holds rows
C9_Witness ==
  /\ last.pc = "done"
  /\ last.method = "GET"
  /\ API_KEY = Env("secret")
  /\ last.userId = JAbsent
  /\ last.resp.status = 400
  /\ store # {}

\* C10 (as claimed): an authorized POST whose body is not JSON or that the
\* schema refuses is a validation error, answered 400.
C10_MalformedIs400 ==
  (last.pc = "done" /\ last.method = "POST" /\ validateApiKey(last.apiKey, API_KEY)
     /\ (~last.body.parseable \/ createTokenSchema(last.body) # <<>>)) =>
    /\ last.resp.status = 400
    /\ last.err = "ZodError"

\* C11: when the store operation of an authorized, valid request fails, the
\* handler answers exactly 500 {error: "Internal server error"} and is
\* finished: it attempted the operation once, with the token string it had
\* generated, and the rows and the ids handed out are as before.
C11_StoreFailureIs500Once ==
  [][(last'.pc = "done" /\ last'.err \in {"UniqueConstraint", "StoreUnavailable"}) =>
       /\ last'.resp = [status |-> 500, error |-> "Internal server error",
                        details |-> <<>>, data |-> <<>>]
       /\ last'.stages = Stages
       /\ \E h \in BagToSet(pending) :
            /\ h.stages = <<"gate", "validator", "service">>
            /\ h.method = last'.method
            /\ h.token = last'.token
            /\ pending' = pending (-) SetToBag({h})
       /\ store' = store
       /\ nextId' = nextId]_vars

\* C11 witness: with a key configured, a create whose insert hit the unique
\* index was answered 500 while another handler is still awaiting the store
C11_Witness ==
  /\ API_KEY = Env("secret")
  /\ CreateSettled
  /\ last.err = "UniqueConstraint"
  /\ last.resp.status = 500
  /\ pending # EmptyBag

\* C12: createTokenSchema accepts a body exactly when userId is a string of
\* length >= 1, scopes is a sequence of length >= 1 of strings of length
\* >= 1, and expiresInMinutes is an integer with 0 < value <= 525600.
C12_SchemaAcceptsIff ==
  call.fn = "createTokenSchema" =>
    ((call.issues = <<>>) <=>
       /\ call.body.isObject
       /\ call.body.userId.t = "str" /\ call.body.userId.s # ""
       /\ call.body.scopes.t = "arr" /\ Len(call.body.scopes.a) >= 1
       /\ \A i \in 1..Len(call.body.scopes.a) :
            call.body.scopes.a[i].t = "str" /\ call.body.scopes.a[i].s # ""
       /\ call.body.expiresInMinutes.t = "num" /\ ~call.body.expiresInMinutes.frac
       /\ 0 < call.body.expiresInMinutes.n /\ call.body.expiresInMinutes.n <= 525600)

\* C12 witness: a body with expiresInMinutes = 525600 is accepted
C12_Witness ==
  /\ call.fn = "createTokenSchema"
  /\ call.body.expiresInMinutes = JNum(525600)
  /\ call.issues = <<>>

\* C13: a list leaves the store as it was: the step in which a handler's
\* findMany settles changes no row, removes none and adds none, the rows that
\* have expired included.
C13_ListIsReadOnly ==
  [][(\E h \in BagToSet(pending) : h.pc = "findMany" /\ pending' = pending (-) SetToBag({h})) =>
       /\ store' = store
       /\ nextId' = nextId
       /\ returned' = returned]_vars

\* C13 witness: a list has returned nothing and a row of its user that had
\* expired at its query time is still stored
C13_Witness ==
  /\ Listed
  /\ last.resp.data = <<>>
  /\ \E r \in store : r.userId = last.userId.s /\ r.expiresAt <= last.qnow

\* C14: no step of a POST or GET handler updates or removes a row: every
\* row of the store is in the store after the step, field for field, a new
\* row takes an id and a token no stored row has, and every record a create
\* has returned is stored.
C14_RecordsImmutable ==
  [][/\ store \subseteq store'
     /\ \A r \in store' \ store : \A x \in store : x.id # r.id /\ x.token # r.token
     /\ returned' \subseteq store']_vars

\* C14 witness: a create is answered 201 while a row that expired earlier is
\* still stored beside the new one
C14_Witness ==
  /\ CreatedOk
  /\ Cardinality(store) = 2
  /\ \E r \in store : r.createdAt < now /\ r.expiresAt <= now

\* C15: a POST answered 201 has added exactly one row; the row holds the
\* request's userId and its scopes in the request's order with repeats kept,
\* the token string the handler generated, an id no row had and the store's
\* time of insertion; the response is the serialization of that row.
C15_PostPersistsVerbatim ==
  [][(last'.pc = "done" /\ last'.method = "POST" /\ last'.resp.status = 201) =>
       \E row \in store' \ store :
         /\ store' = store \cup {row}
         /\ row.userId = last'.body.userId.s
         /\ Len(row.scopes) = Len(last'.body.scopes.a)
         /\ \A i \in 1..Len(row.scopes) : row.scopes[i] = last'.body.scopes.a[i].s
         /\ row.token = last'.token
         /\ \E uuid \in TokenStrings : row.token = generateTokenString(uuid)
         /\ \A x \in store : x.id # row.id
         /\ row.createdAt = now'
         /\ last'.resp.data = <<serializeToken(row)>>
         /\ last'.resp.error = "" /\ last'.resp.details = <<>>]_vars

\* C15 witness: a create with scopes <<"read", "read">> is answered 201 with
\* both elements, as the second row of the store
C15_Witness ==
  /\ CreatedOk
  /\ last.resp.data[1].scopes = <<"read", "read">>
  /\ last.resp.data[1].id = 2
  /\ Cardinality(store) = 2

\* C16: the records of a list are in descending order of createdAt: of two
\* returned records the earlier in the sequence was created no earlier.
C16_ListNewestFirst ==
  Listed =>
    \A i, j \in 1..Len(last.resp.data) :
      i < j => parseISOString(last.resp.data[i].createdAt) >= parseISOString(last.resp.data[j].createdAt)

\* C16 witness: a list returns two records created at different times
C16_Witness ==
  /\ Listed
  /\ Len(last.resp.data) = 2
  /\ parseISOString(last.resp.data[1].createdAt) > parseISOString(last.resp.data[2].createdAt)

\* C17: the clock never goes back, a list takes the clock's reading at its
\* call as its query time, and its result holds no created record of its
\* user whose expiresAt is at or before that query time: so once the clock
\* has reached r.expiresAt every list called from then on leaves r out, and
\* r is in no result of a list called after one that left it out for expiry.
C17_ExpiredStaysExcluded ==
  [][/\ now' >= now
     /\ \A h \in BagToSet(pending') :
          (h.pc = "findMany" /\ ~BagIn(h, pending)) => h.qnow = now
     /\ \A h \in BagToSet(pending') : h.pc = "findMany" => h.qnow <= now'
     /\ Listed' =>
          \A r \in returned' :
            (r.userId = last'.userId.s /\ r.expiresAt <= last'.qnow) =>
              serializeToken(r) \notin ListedTokens']_vars

\* C17 witness: in a zone without transitions, a record created with a
\* positive lifetime is left out of a list called when its expiresAt had come
C17_Witness ==
  /\ tz = FixedZone
  /\ Listed
  /\ \E r \in returned :
       /\ r.userId = last.userId.s
       /\ r.createdAt < r.expiresAt
       /\ r.expiresAt <= last.qnow
       /\ serializeToken(r) \notin ListedTokens

\* C18: with no API key configured, validateApiKey returns true whatever
\* header the request carries, or none, and each such call emits one warning.
C18_OpenModeAcceptsAndWarns ==
  (call.fn = "validateApiKey" /\ ~call.expectedApiKey.set) =>
    /\ call.result = TRUE
    /\ call.warnings = <<"Warning: API_KEY not configured. Authentication is disabled.">>

\* C18 witness: with no key configured a request without the header is
\* accepted with a warning
C18_Witness ==
  /\ call.fn = "validateApiKey"
  /\ call.expectedApiKey = NoEnv
  /\ call.apiKey = NoHeader
  /\ call.result = TRUE
  /\ Len(call.warnings) = 1

\* C19: whatever other handlers are in flight, a create whose insert reaches
\* an available store with a token string no row holds succeeds: the step
\* adds one row holding that call's own token, userId, scopes and expiresAt,
\* answers that call with it, and leaves the other handlers and the other
\* rows as they were.
C19_ConcurrentCreatesIndependent ==
  [][(/\ last'.pc = "done" /\ last'.method = "POST" /\ Len(last'.stages) = 4
      /\ last'.err # "StoreUnavailable"
      /\ \A x \in store : x.token # last'.token) =>
       \E h \in BagToSet(pending) :
         /\ h.pc = "create"
         /\ pending' = pending (-) SetToBag({h})
         /\ last'.resp.status = 201
         /\ \E row \in store' \ store :
              /\ store' = store \cup {row}
              /\ returned' = returned \cup {row}
              /\ \A x \in store : x.id # row.id
              /\ row.token = h.token
              /\ row.userId = h.body.userId.s
              /\ row.scopes = [i \in 1..Len(h.body.scopes.a) |-> h.body.scopes.a[i].s]
              /\ row.expiresAt = h.expiresAt
              /\ last'.resp.data = <<serializeToken(row)>>]_vars

\* C19 witness: two creates of different users were in flight together while
\* the clock advanced, both have succeeded, and each row holds the expiry its
\* own call computed
C19_Witness ==
  /\ tz = FixedZone
  /\ CreatedOk
  /\ pending = EmptyBag
  /\ \E a, b \in store :
       /\ a.userId = "u1" /\ a.scopes = <<"read", "write">>
       /\ b.userId = "u2" /\ b.scopes = <<"read", "read">>
       /\ a.token # b.token
       /\ a.createdAt = MsPerMinute /\ a.expiresAt = MsPerMinute
       /\ b.createdAt = MsPerMinute /\ b.expiresAt = 2 * MsPerMinute

\* C20: serializeToken returns id, token, userId and scopes as they are, an
\* empty scopes sequence included, and renders createdAt and expiresAt as UTC
\* date-time strings with milliseconds whose parse is the original instant.
C20_SerializeRoundTrip ==
  call.fn = "serializeToken" =>
    /\ call.result.id = call.token.id
    /\ call.result.token = call.token.token
    /\ call.result.userId = call.token.userId
    /\ call.result.scopes = call.token.scopes
    /\ parseISOString(call.result.createdAt) = call.token.createdAt
    /\ parseISOString(call.result.expiresAt) = call.token.expiresAt
    /\ \A iso \in {call.result.createdAt, call.result.expiresAt} :
         /\ iso.hh \in 0..23
         /\ iso.mm \in 0..59
         /\ iso.ss \in 0..59
         /\ iso.sss \in 0..999

\* C20 witness: a token with no scopes, created one millisecond before the
\* origin and expiring on the next day at 01:01:01.001, is serialized
C20_Witness ==
  /\ call.fn = "serializeToken"
  /\ call.token.scopes = <<>>
  /\ call.result.scopes = <<>>
  /\ call.token.createdAt = -1
  /\ call.result.createdAt = [day |-> -1, hh |-> 23, mm |-> 59, ss |-> 59, sss |-> 999]
  /\ call.result.expiresAt = [day |-> 1, hh |-> 1, mm |-> 1, ss |-> 1, sss |-> 1]

C22_ExpiryIsNowPlusMinutes ==
  call.fn = "calculateExpiryDate" =>
    /\ call.result = call.t + call.expiresInMinutes * MsPerMinute
    /\ call.result > call.t

\* the text is "token_" followed by 36 characters: hex digits in groups of
\* 8, 4, 4, 4 and 12 separated by dashes
IsTokenFormat(text) ==
  /\ Len(text) = 42
  /\ SubSeq(text, 1, 6) = <<"t", "o", "k", "e", "n", "_">>
  /\ \A p \in 1..36 :
       IF p \in {9, 14, 19, 24} THEN text[6 + p] = "-"
       ELSE \E i \in 1..16 : text[6 + p] = HexDigits[i]

C24_SweepRemovesExactlyExpired ==
  [][\A h \in BagToSet(pending) :
       (h.pc = "deleteMany" /\ pending' = pending (-) SetToBag({h}) /\ last'.err = "") =>
         LET removed == store \ store'
             listable == UNION {{seq[i] : i \in 1..Len(seq)} :
                                  seq \in UNION {FindManyResults(store, u, h.qnow) :
                                                   u \in {r.userId : r \in store}}}
         IN /\ store' \subseteq store
            /\ \A r \in store : r \in removed <=> r.expiresAt <= h.qnow
            /\ last'.count = Cardinality(removed)
            /\ removed \cap listable = {}
            /\ removed \cup listable = store
            /\ listable \subseteq store'
            /\ returned' = returned]_vars

\* C24 witness: a sweep has removed the one row that expired at the very
\* instant it took as its time, and left the other row
C24_Witness ==
  /\ last.pc = "done"
  /\ last.method = "deleteExpiredTokens"
  /\ last.err = ""
  /\ last.count = 1
  /\ Cardinality(store) = 1
  /\ \E r \in returned \ store : r.expiresAt = last.qnow

\* C25 (as claimed): a row of user u is in the result of a list for u taken
\* at query time qnow exactly when isTokenExpired of its expiresAt at qnow is
\* false.
C25_PredicateAgreesWithQuery ==
  Listed =>
    \A r \in store :
      r.userId = last.userId.s =>
        (serializeToken(r) \in ListedTokens <=> ~isTokenExpired(r.expiresAt, last.qnow))

\* C26: with API_KEY set to the empty string the gate behaves as with no
\* key: validateApiKey is true for every header and for none, no request is
\* answered 401, and a create or list request that is valid goes on to the
\* validator, the service and the store whatever header it carries.
C26_EmptyKeyIsOpen ==
  API_KEY = Env("") =>
    /\ \A h \in Headers \cup {Header("")} :
         validateApiKey(h, API_KEY) /\ validateApiKey(h, API_KEY) = validateApiKey(h, NoEnv)
    /\ \A h \in Headers, b \in Bodies, uuid \in TokenStrings :
         /\ PostValidate(PostRequest(h, b), uuid).resp.status # 401
         /\ b \in ValidBodies =>
              /\ PostValidate(PostRequest(h, b), uuid).pc = "create"
              /\ PostValidate(PostRequest(h, b), uuid).stages = <<"gate", "validator", "service">>
    /\ \A h \in Headers, q \in Queries :
         /\ GetValidate(GetRequest(h, q)).resp.status # 401
         /\ getTokensSchema(q) = <<>> => GetValidate(GetRequest(h, q)).pc = "findMany"
    /\ last.pc = "done" => last.resp.status # 401

\* C26 witness: with API_KEY set to the empty string a list is answered 200
\* with a record that a create stored
C26_Witness ==
  /\ API_KEY = Env("")
  /\ Listed
  /\ Len(last.resp.data) = 1
  /\ last.stages = Stages
  /\ returned # {}

====
